---- MODULE Spec2Model ----
(***************************************************************************)
(* A model of dune: the REPL of shell.rs (Shell::run), the executor of     *)
(* tokens.rs (the Execute implementations) and the stack machine they      *)
(* drive.  Execution is small-step: `kont` is the executor's continuation  *)
(* (what the Rust call stack still has to do), `frames` the Shell values   *)
(* alive (the REPL's shell first, then one per user function running).     *)
(***************************************************************************)
EXTENDS Integers, Sequences, FiniteSets, TLC

VARIABLES pc, frames, heap, kont, effects, loops, exitSeen, bound, last, nProgs, prog, fs,
          command, user_input

vars == <<pc, frames, heap, kont, effects, loops, exitSeen, bound, last, nProgs, prog, fs,
          command, user_input>>

(***************************************************************************)
(* Bounds.                                                                 *)
(***************************************************************************)
MaxProgs == 2
MaxHeap == 26
MaxEffects == 4
MaxCount == 4
MaxCommand == 6

(***************************************************************************)
(* The AST of tokens.rs.  Every node is a record of one shape:             *)
(*   k  the variant, s/n its string or number payload,                     *)
(*   a, b, c its children (sequences of nodes).                            *)
(***************************************************************************)
Node(k, s, n, a, b, c) == [k |-> k, s |-> s, n |-> n, a |-> a, b |-> b, c |-> c]

Nil == Node("Nil", "", 0, <<>>, <<>>, <<>>)

\* Literal::Number / Literal::String
NumLit(n) == Node("Number", "", n, <<>>, <<>>, <<>>)

StrLit(s) == Node("String", s, 0, <<>>, <<>>, <<>>)

\* Identifier, and Name::Name(Identifier)
Identifier(s) == Node("Identifier", s, 0, <<>>, <<>>, <<>>)

\* Name::DotName(head, identifiers): a = <<head>>, b = the identifiers
DotName(head, idents) == Node("DotName", "", 0, <<head>>, idents, <<>>)

\* Name::IndexName(head, values): a = <<head>>, b = the index values
IndexName(head, values) == Node("IndexName", "", 0, <<head>>, values, <<>>)

\* FnCall(function, arguments): a = <<function>>, b = arguments
FnCall(function, arguments) == Node("FnCall", "", 0, <<function>>, arguments, <<>>)

\* Value::Builtin(b): s names the Builtin variant
Builtin(b) == Node("Builtin", b, 0, <<>>, <<>>, <<>>)

\* Suite(exprs): c = the expressions
Suite(exprs) == Node("Suite", "", 0, <<>>, <<>>, exprs)

\* Function(args, suite): b = the parameters (Identifiers), c = the body
Function(args, exprs) == Node("Function", "", 0, <<>>, args, exprs)

\* FunctionDef(name, func): a = <<name>>, b = <<func>>
FunctionDef(name, func) == Node("FunctionDef", "", 0, <<name>>, <<func>>, <<>>)

\* Expr::Assignment(name, value): a = <<name>>, b = <<value>>
Assignment(name, value) == Node("Assignment", "", 0, <<name>>, <<value>>, <<>>)

\* Expr::WhileLoop(value, body): a = <<value>>, c = the body
WhileLoop(value, body) == Node("WhileLoop", "", 0, <<value>>, <<>>, body)

\* Expr::IfThenElse(value, then, else): a = <<value>>, b = then, c = else
IfThenElse(value, thenBody, elseBody) == Node("IfThenElse", "", 0, <<value>>, thenBody, elseBody)

(***************************************************************************)
(* Runtime values (xmachine::Value) live in heap cells; a Ref is the       *)
(* address of a cell.  kids is a tree's ordered key -> Ref mapping.        *)
(***************************************************************************)
Val(t, n, s, kids, fn) == [t |-> t, n |-> n, s |-> s, kids |-> kids, fn |-> fn]

FreeCell == Val("free", 0, "", <<>>, Nil)

NumV(n) == Val("num", n, "", <<>>, Nil)

StrV(s) == Val("str", 0, s, <<>>, Nil)

TreeV(kids) == Val("tree", 0, "", kids, Nil)

FnV(f) == Val("fn", 0, "", <<>>, f)

HostV(name) == Val("host", 0, name, <<>>, Nil)

RECURSIVE Joined(_, _)
Joined(names, i) ==
    IF i > Len(names) THEN ""
    ELSE (IF i > 1 THEN ", " ELSE "") \o names[i] \o Joined(names, i + 1)

\* Value::List of strings: n its length, s its display
ListV(names) == Val("list", Len(names), "[" \o Joined(names, 1) \o "]", <<>>, Nil)

(***************************************************************************)
(* Paths.  A PathBuf is its sequence of components; the host file system   *)
(* fs is the directories and the files that exist, Dirs the directories    *)
(* it starts with.                                                         *)
(***************************************************************************)
Home == <<"home">>

Dirs == {<<>>, <<"home">>, <<"home", "a">>}

FsInit == [dirs |-> Dirs, files |-> {}]

Exists(f, p) == p \in f.dirs \cup f.files

IsPrefix(p, q) == Len(p) <= Len(q) /\ SubSeq(q, 1, Len(p)) = p

RECURSIVE JoinFrom(_, _)
JoinFrom(p, i) == IF i > Len(p) THEN "" ELSE "/" \o p[i] \o JoinFrom(p, i + 1)

\* to_string(&PathBuf)
to_string(p) == IF p = <<>> THEN "/" ELSE JoinFrom(p, 1)

RECURSIVE Components(_, _, _)
\* the components of a path string from position i on, word the one begun
Components(d, i, word) ==
    IF i > Len(d) THEN (IF word = "" THEN <<>> ELSE <<word>>)
    ELSE IF SubSeq(d, i, i) = "/" THEN (IF word = "" THEN <<>> ELSE <<word>>) \o Components(d, i + 1, "")
    ELSE Components(d, i + 1, word \o SubSeq(d, i, i))

\* PathBuf::push: "" adds nothing, an absolute path replaces, a relative
\* one is appended
PathPush(p, d) ==
    IF d = "" THEN p
    ELSE IF SubSeq(d, 1, 1) = "/" THEN Components(d, 1, "")
    ELSE p \o Components(d, 1, "")

RECURSIVE Resolve(_, _, _)
Resolve(p, i, acc) ==
    IF i > Len(p) THEN acc
    ELSE IF p[i] = ".." THEN Resolve(p, i + 1, IF acc = <<>> THEN acc ELSE SubSeq(acc, 1, Len(acc) - 1))
    ELSE IF p[i] = "." THEN Resolve(p, i + 1, acc)
    ELSE Resolve(p, i + 1, Append(acc, p[i]))

\* PathBuf::canonicalize: the resolved path when it exists
Canonicalize(p) == LET r == Resolve(p, 1, <<>>) IN [ok |-> Exists(fs, r), path |-> r]

\* the path the host resolves p to
HostPath(p) == Resolve(p, 1, <<>>)

Parent(p) == SubSeq(p, 1, Len(p) - 1)

\* std::fs::create_dir_all: the directory and its missing ancestors, unless
\* a file is in the way
create_dir_all(f, p) ==
    LET r == HostPath(p)
        chain == {SubSeq(r, 1, k) : k \in 0..Len(r)}
    IN IF chain \cap f.files # {} THEN f ELSE [f EXCEPT !.dirs = @ \cup chain]

\* std::fs::write of "": the file, when its directory exists and it is no
\* directory itself
write(f, p) ==
    LET r == HostPath(p)
    IN IF r # <<>> /\ Parent(r) \in f.dirs /\ r \notin f.dirs
       THEN [f EXCEPT !.files = @ \cup {r}]
       ELSE f

\* std::fs::remove_dir_all: the directory with all it holds
remove_dir_all(f, p) ==
    LET r == HostPath(p)
    IN IF r \in f.dirs /\ r # <<>>
       THEN [dirs |-> {q \in f.dirs : ~ IsPrefix(r, q)}, files |-> {q \in f.files : ~ IsPrefix(r, q)}]
       ELSE f

\* std::fs::remove_file
remove_file(f, p) ==
    LET r == HostPath(p)
    IN IF r \in f.files THEN [f EXCEPT !.files = @ \ {r}] ELSE f

\* q moved with the tree at from to the tree at to
Moved(q, from, to) == to \o SubSeq(q, Len(from) + 1, Len(q))

\* std::fs::rename: the file or the tree at old moves to new; it fails when
\* old is missing, new has no directory to be in or lies inside old, a
\* directory would replace a file or a directory that is not empty, or a
\* file would replace a directory
rename(f, old, new) ==
    LET ro == HostPath(old)
        rn == HostPath(new)
        held == {q \in f.dirs \cup f.files : IsPrefix(rn, q) /\ q # rn}
        fails ==
            \/ ~ Exists(f, ro)
            \/ ro = <<>> \/ rn = <<>>
            \/ Parent(rn) \notin f.dirs
            \/ IsPrefix(ro, rn) /\ ro # rn
            \/ ro \in f.dirs /\ (rn \in f.files \/ held # {})
            \/ ro \in f.files /\ rn \in f.dirs
    IN IF fails \/ ro = rn THEN f
       ELSE [dirs |-> {q \in f.dirs : ~ IsPrefix(ro, q) /\ q # rn}
                       \cup {Moved(q, ro, rn) : q \in {d \in f.dirs : IsPrefix(ro, d)}},
             files |-> {q \in f.files : ~ IsPrefix(ro, q) /\ q # rn}
                       \cup {Moved(q, ro, rn) : q \in {d \in f.files : IsPrefix(ro, d)}}]

\* std::fs::read_dir: the names in a directory, nothing when it fails
read_dir(f, p) ==
    LET r == HostPath(p)
    IN IF r \in f.dirs
       THEN {q[Len(q)] : q \in {d \in f.dirs \cup f.files : Len(d) = Len(r) + 1 /\ IsPrefix(r, d)}}
       ELSE {}

(***************************************************************************)
(* Registers: one total map from the names the programs use to a Ref       *)
(* (0 = no entry).  HostNames are the entries machine() registers.         *)
(***************************************************************************)
HostNames == <<"true", "false", "print", "println", "dict", "eval">>

UserNames == {"x", "y", "z", "a", "b", "f", "g", "ls"}

RegNames == {HostNames[i] : i \in 1..Len(HostNames)} \cup UserNames

Range(sq) == {sq[i] : i \in 1..Len(sq)}

\* the element of a singleton; {e(v) : v \in {x}} evaluates x once
Once(S) == CHOOSE r \in S : TRUE

Addrs == 1..MaxHeap

\* machine(): add_const true/false, add_fn print, println, dict, eval
machine ==
    [stack |-> <<>>,
     registers |-> [n \in RegNames |->
                      IF \E i \in 1..Len(HostNames) : HostNames[i] = n
                      THEN CHOOSE i \in 1..Len(HostNames) : HostNames[i] = n
                      ELSE 0],
     cells |-> <<NumV(1), NumV(0), HostV("print"), HostV("println"), HostV("dict"), HostV("eval")>>]

\* Shell::new(); site, params and entry are history fields of the shell a
\* call makes: the FnCall, the parameters and the stack it started from
NewShell ==
    [directory |-> Home, stack |-> machine.stack, registers |-> machine.registers,
     is_done |-> FALSE, site |-> Nil, params |-> <<>>, entry |-> <<>>]

(***************************************************************************)
(* The heap of Ref cells.                                                  *)
(***************************************************************************)
KidAddrs(v) == {v.kids[i].a : i \in 1..Len(v.kids)}

Roots(shells) ==
    UNION {Range(shells[i].stack) \cup ({shells[i].registers[n] : n \in RegNames} \ {0}) :
             i \in 1..Len(shells)}

RECURSIVE Reach(_, _)
Reach(h, S) ==
    LET T == S \cup UNION {KidAddrs(h[a]) : a \in S}
    IN IF T = S THEN S ELSE Reach(h, T)

\* Ref counting: a cell no Ref reaches is freed
Collect(h0, shells) ==
    Once({LET live == Reach(h, Roots(shells))
          IN [a \in Addrs |-> IF a \in live THEN h[a] ELSE FreeCell] : h \in {h0}})

HasFree(h) == \E a \in Addrs : h[a].t = "free"

\* Ref::new: the cell a new Ref gets
Alloc(h) == CHOOSE a \in Addrs : h[a].t = "free" /\ \A b \in 1..(a - 1) : h[b].t # "free"

(***************************************************************************)
(* Continuation items.                                                     *)
(***************************************************************************)
Item(op, node, site, tag) == [op |-> op, node |-> node, site |-> site, tag |-> tag]

Exec(node) == Item("exec", node, Nil, "")

ExecAll(nodes) == [i \in 1..Len(nodes) |-> Exec(nodes[i])]

Reverse(sq) == [i \in 1..Len(sq) |-> sq[Len(sq) + 1 - i]]

Depth == Len(frames)

Top == frames[Depth]

\* a step may make two Refs
Room(h) == Cardinality({a \in Addrs : h[a].t = "free"}) >= 2

Running == pc = "exec" /\ kont # <<>> /\ Room(heap)

Cur == Head(kont)

Rest == Tail(kont)

At(k) == Running /\ Cur.op = "exec" /\ Cur.node.k = k

Bump(n) == IF n < MaxCount THEN n + 1 ELSE n

NoLoops == [cond |-> 0, body |-> 0, trues |-> 0, falses |-> 0]

\* Display of a value, as print!("{}") shows it
Display(v) == [t |-> v.t, n |-> v.n, s |-> v.s]

\* history of the REPL shell's stores: nothing stored under the name yet
Unbound == [t |-> "none", n |-> 0, s |-> ""]

\* what a step leaves: the running shell, the heap, the continuation
Commit(top0, h0, k, name) ==
    \E top \in {top0}, h \in {h0} :
    /\ frames' = [frames EXCEPT ![Depth] = top]
    /\ heap' = Collect(h, frames')
    /\ kont' = k
    /\ last' = name
    /\ loops' = IF Cur.tag = "cond" THEN [loops EXCEPT !.cond = Bump(@)]
                ELSE IF Cur.tag = "body" THEN [loops EXCEPT !.body = Bump(@)]
                ELSE loops
    /\ bound' = IF name = "store" /\ Depth = 1
                THEN [x \in UserNames |->
                        IF top.registers[x] # Top.registers[x] THEN Display(h[top.registers[x]])
                        ELSE bound[x]]
                ELSE bound
    /\ UNCHANGED <<pc, nProgs, prog, command, user_input>>

Effect(ev, d) == [ev |-> ev, t |-> d.t, n |-> d.n, s |-> d.s]

Log(es, e) == IF Len(es) < MaxEffects THEN Append(es, e) ELSE es

(***************************************************************************)
(* Programs the REPL is given.                                             *)
(***************************************************************************)
\* println(v)
Println(v) == FnCall(Identifier("println"), <<v>>)

\* 1; "s"
PushProg == Suite(<<NumLit(1), StrLit("s")>>)

\* x = v
AssignProg(v) == Suite(<<Assignment(Identifier("x"), v)>>)

\* fn f(a, b) { println(a); println(b) }  7  f(u, v)
CallProg(u, v) ==
    Suite(<<FunctionDef(Identifier("f"),
                        Function(<<Identifier("a"), Identifier("b")>>,
                                 <<Println(Identifier("a")), Println(Identifier("b"))>>)),
            NumLit(7),
            FnCall(Identifier("f"), <<u, v>>)>>)

\* fn g() {}  g(u, v), the arguments having effects
EffectProg(u, v) ==
    Suite(<<FunctionDef(Identifier("g"), Function(<<>>, <<>>)),
            FnCall(Identifier("g"), <<u, v>>)>>)

\* fn f(a) { z = 5 }  f(1)
ScopeProg ==
    Suite(<<FunctionDef(Identifier("f"),
                        Function(<<Identifier("a")>>, <<Assignment(Identifier("z"), NumLit(5))>>)),
            FnCall(Identifier("f"), <<NumLit(1)>>)>>)

\* while 0 { println(9) }
WhileZeroProg == Suite(<<WhileLoop(NumLit(0), <<Println(NumLit(9))>>)>>)

\* x = 1; y = 1; while x { x = y; y = 0 }
WhileTwiceProg ==
    Suite(<<Assignment(Identifier("x"), NumLit(1)),
            Assignment(Identifier("y"), NumLit(1)),
            WhileLoop(Identifier("x"),
                      <<Assignment(Identifier("x"), Identifier("y")),
                        Assignment(Identifier("y"), NumLit(0))>>)>>)

\* while 1 { exit() }
WhileExitProg == Suite(<<WhileLoop(NumLit(1), <<FnCall(Builtin("Exit"), <<>>)>>)>>)

\* y = 1; while y { exit(); y = 0 }
LoopExitProg ==
    Suite(<<Assignment(Identifier("y"), NumLit(1)),
            WhileLoop(Identifier("y"),
                      <<FnCall(Builtin("Exit"), <<>>), Assignment(Identifier("y"), NumLit(0))>>)>>)

\* exit
ExitProg == Suite(<<Builtin("Exit")>>)

\* if c { exit() } else { println(2) }
IfExitProg(c) == Suite(<<IfThenElse(c, <<FnCall(Builtin("Exit"), <<>>)>>, <<Println(NumLit(2))>>)>>)

\* fn f() { exit() }  f()
FnExitProg ==
    Suite(<<FunctionDef(Identifier("f"), Function(<<>>, <<FnCall(Builtin("Exit"), <<>>)>>)),
            FnCall(Identifier("f"), <<>>)>>)

\* a = dict(); b = a; a.k = v; b.k
AliasDotProg(v) ==
    Suite(<<Assignment(Identifier("a"), FnCall(Identifier("dict"), <<>>)),
            Assignment(Identifier("b"), Identifier("a")),
            Assignment(DotName(Identifier("a"), <<Identifier("k")>>), v),
            DotName(Identifier("b"), <<Identifier("k")>>)>>)

\* a = dict(); b = a; a["k"] = v; b["k"]
AliasIndexProg(v) ==
    Suite(<<Assignment(Identifier("a"), FnCall(Identifier("dict"), <<>>)),
            Assignment(Identifier("b"), Identifier("a")),
            Assignment(IndexName(Identifier("a"), <<StrLit("k")>>), v),
            IndexName(Identifier("b"), <<StrLit("k")>>)>>)

\* cd d; pwd
CdProg(d) == Suite(<<FnCall(Builtin("ChangeDir"), <<StrLit(d)>>), Builtin("WorkingDir")>>)

\* z
ReadProg == Suite(<<Identifier("z")>>)

\* true()
CallConstProg == Suite(<<FnCall(Identifier("true"), <<>>)>>)

\* g(println(1), println(2))
PrintArgsProg == EffectProg(Println(NumLit(1)), Println(NumLit(2)))

\* g(cd("a"), println(pwd))
CdArgsProg == EffectProg(FnCall(Builtin("ChangeDir"), <<StrLit("a")>>), Println(Builtin("WorkingDir")))

\* op d, for the built-ins of one path operand
PathProg(op, d) == Suite(<<FnCall(Builtin(op), <<StrLit(d)>>)>>)

\* mv old new
MvProg(old, new) == Suite(<<FnCall(Builtin("Move"), <<StrLit(old), StrLit(new)>>)>>)

LsPres == {<<>>, <<NumLit(7)>>, <<StrLit("a")>>}

\* the expressions pre, then ls
LsProg(pre) == Suite(pre \o <<Builtin("List")>>)

\* ls d
LsArgProg(d) == PathProg("List", d)

\* cd "a"; fn f() { pwd }  f()
PwdFnProg ==
    Suite(<<FnCall(Builtin("ChangeDir"), <<StrLit("a")>>),
            FunctionDef(Identifier("f"), Function(<<>>, <<Builtin("WorkingDir")>>)),
            FnCall(Identifier("f"), <<>>)>>)

\* if print() { println(1) } else { println(2) }
IfUnderflowProg ==
    Suite(<<IfThenElse(FnCall(Identifier("print"), <<>>), <<Println(NumLit(1))>>, <<Println(NumLit(2))>>)>>)

\* while println() { println(9) }
WhileUnderflowProg == Suite(<<WhileLoop(FnCall(Identifier("println"), <<>>), <<Println(NumLit(9))>>)>>)

\* 7; x = v; x = v
AssignTwiceProg(v) ==
    Suite(<<NumLit(7), Assignment(Identifier("x"), v), Assignment(Identifier("x"), v)>>)

\* fn f(a) { body }  7  f(1)
StackProg(body) ==
    Suite(<<FunctionDef(Identifier("f"), Function(<<Identifier("a")>>, body)),
            NumLit(7),
            FnCall(Identifier("f"), <<NumLit(1)>>)>>)

\* bodies that leave a value and that pop one they did not push
StackBodies == {<<StrLit("s")>>, <<FnCall(Identifier("println"), <<>>)>>}

\* 7  x = 1  eval(src)  x
EvalProg(src) ==
    Suite(<<NumLit(7), Assignment(Identifier("x"), NumLit(1)),
            FnCall(Identifier("eval"), <<StrLit(src)>>), Identifier("x")>>)

\* texts given to eval: a store and a value, exit, cd, and one that does
\* not parse
EvalSources == {"x = 2; 5", "exit", "cd \"a\"", "x ="}

\* eval()
EvalNothingProg == Suite(<<FnCall(Identifier("eval"), <<>>)>>)

Lits == {NumLit(1), StrLit("s")}

ArgVals == Lits \cup {Identifier("x")}

Programs ==
    {PushProg, ScopeProg, WhileZeroProg, WhileTwiceProg, WhileExitProg, LoopExitProg,
     ExitProg, FnExitProg, ReadProg, CallConstProg}
    \cup {AssignProg(v) : v \in {NumLit(1), NumLit(2)}}
    \cup {CallProg(u, v) : u \in ArgVals, v \in Lits}
    \cup {PrintArgsProg, CdArgsProg}
    \cup {IfExitProg(c) : c \in {NumLit(0), NumLit(1)}}
    \cup {AliasDotProg(v) : v \in Lits}
    \cup {AliasIndexProg(v) : v \in Lits}
    \cup {CdProg(d) : d \in {"a", "..", "nope"}}
    \cup {AssignTwiceProg(v) : v \in Lits}
    \cup {PathProg(op, d) : op \in {"Remove", "MakeDir", "MakeFile"}, d \in {"", "a", "b"}}
    \cup {MvProg(old, new) : old \in {"", "a"}, new \in {"", "b"}}
    \cup {LsProg(pre) : pre \in LsPres}
    \cup {LsArgProg(d) : d \in {"a", "nope"}}
    \cup {PwdFnProg, IfUnderflowProg, WhileUnderflowProg}
    \cup {StackProg(body) : body \in StackBodies}
    \cup {EvalProg(src) : src \in EvalSources}
    \cup {EvalNothingProg}

(***************************************************************************)
(* The state after Shell::new() in main.                                   *)
(***************************************************************************)
Init ==
    /\ pc = "prompt"
    /\ frames = <<NewShell>>
    /\ heap = [a \in Addrs |-> IF a <= Len(machine.cells) THEN machine.cells[a] ELSE FreeCell]
    /\ kont = <<>>
    /\ effects = <<>>
    /\ loops = NoLoops
    /\ exitSeen = FALSE
    /\ bound = [x \in UserNames |-> Unbound]
    /\ last = "new"
    /\ nProgs = 0
    /\ prog = Nil
    /\ fs = FsInit
    /\ command = ""
    /\ user_input = ""

(***************************************************************************)
(* Shell::run                                                              *)
(***************************************************************************)
\* the prompt, the input lines read until the buffer parses as program p
\* (their text is not kept), and the start of v.execute(self)
Submit(p) ==
    /\ pc = "prompt"
    /\ ~ frames[1].is_done
    /\ nProgs < MaxProgs
    /\ pc' = "exec"
    /\ kont' = <<Exec(p)>>
    /\ prog' = p
    /\ nProgs' = nProgs + 1
    /\ effects' = <<>>
    /\ loops' = NoLoops
    /\ exitSeen' = FALSE
    /\ last' = "submit"
    /\ command' = ""
    /\ user_input' = ""
    /\ UNCHANGED <<frames, heap, bound, fs>>

RECURSIVE print_stack(_, _, _)
\* print_stack: while let Some(value) = pop() { println!(value) }
print_stack(h, stack, es) ==
    IF stack = <<>> THEN [stack |-> stack, effects |-> es]
    ELSE print_stack(h, SubSeq(stack, 1, Len(stack) - 1),
                     Log(es, Effect("result", Display(h[stack[Len(stack)]]))))

RECURSIVE clear_stack(_)
\* clear_stack: while let Some(_) = pop() {}
clear_stack(stack) == IF stack = <<>> THEN stack ELSE clear_stack(SubSeq(stack, 1, Len(stack) - 1))

\* PrintClear without the two drains
PrintClearKeep ==
    /\ pc = "exec"
    /\ kont = <<>>
    /\ Depth = 1
    /\ pc' = IF Top.is_done THEN "halted" ELSE "prompt"
    /\ last' = "drain"
    /\ UNCHANGED <<frames, heap, effects, kont, loops, exitSeen, bound, nProgs, prog, fs, command, user_input>>

\* PrintClear that starts the next prompt from a new machine()
PrintClearFresh ==
    /\ pc = "exec"
    /\ kont = <<>>
    /\ Depth = 1
    /\ LET printed == print_stack(heap, Top.stack, effects)
           top == [Top EXCEPT !.stack = clear_stack(printed.stack), !.registers = machine.registers]
       IN /\ frames' = <<top>>
          /\ heap' = Collect(heap, frames')
          /\ effects' = printed.effects
          /\ pc' = IF top.is_done THEN "halted" ELSE "prompt"
    /\ last' = "drain"
    /\ UNCHANGED <<kont, loops, exitSeen, bound, nProgs, prog, fs, command, user_input>>

\* execute has returned: print_stack, clear_stack, and the loop test
PrintClear ==
    /\ pc = "exec"
    /\ kont = <<>>
    /\ Depth = 1
    /\ LET printed == print_stack(heap, Top.stack, effects)
           top == [Top EXCEPT !.stack = clear_stack(printed.stack)]
       IN /\ frames' = <<top>>
          /\ heap' = Collect(heap, frames')
          /\ effects' = printed.effects
          /\ pc' = IF top.is_done THEN "halted" ELSE "prompt"
    /\ last' = "drain"
    /\ UNCHANGED <<kont, loops, exitSeen, bound, nProgs, prog, fs, command, user_input>>

(***************************************************************************)
(* The stack machine (xmachine::Machine), as section 4.2 of the design     *)
(* describes it.  A machine is a record of stack, registers and heap.      *)
(***************************************************************************)
Mach(top, h) == [stack |-> top.stack, registers |-> top.registers, heap |-> h]

\* push(v) of a new value: a new Ref on top
push(m0, v) ==
    Once({LET a == Alloc(m.heap) IN [m EXCEPT !.stack = Append(@, a), !.heap[a] = v] : m \in {m0}})

\* push of a Ref that exists
pushRef(m, a) == [m EXCEPT !.stack = Append(@, a)]

\* what pop() returns: the top Ref, 0 for None
peek(m) == IF m.stack = <<>> THEN 0 ELSE m.stack[Len(m.stack)]

\* what pop() leaves
pop(m) == IF m.stack = <<>> THEN m ELSE [m EXCEPT !.stack = SubSeq(@, 1, Len(@) - 1)]

NumStr(n) == IF n \in 0..9 THEN <<"0", "1", "2", "3", "4", "5", "6", "7", "8", "9">>[n + 1] ELSE "?"

\* Value to String: a string's text, a number's display
ValueStr(v) == IF v.t = "str" THEN v.s ELSE IF v.t = "num" THEN NumStr(v.n) ELSE ""

\* get_arg::<String>(): pop and coerce, "" when nothing is there
get_arg(m) == IF peek(m) = 0 THEN "" ELSE ValueStr(m.heap[peek(m)])

\* bool::from(Value)
Truthy(v) ==
    IF v.t = "num" THEN v.n # 0
    ELSE IF v.t = "str" THEN v.s # ""
    ELSE IF v.t = "tree" THEN v.kids # <<>>
    ELSE TRUE

\* load(): pop the key, push registers[key]; for a missing key either
\* nothing or a fresh empty tree (miss)
load(m0, miss) ==
    Once({LET k == peek(m)
              m1 == pop(m)
              name == ValueStr(m.heap[k])
          IN IF k = 0 THEN m
             ELSE IF name \in RegNames /\ m.registers[name] # 0 THEN pushRef(m1, m.registers[name])
             ELSE IF miss = "tree" THEN push(m1, TreeV(<<>>))
             ELSE m1 : m \in {m0}})

\* store(): pop the key, pop the value, registers[key] = value
store(m0) ==
    Once({LET k == peek(m)
              m1 == pop(m)
              v == peek(m1)
              m2 == pop(m1)
              name == ValueStr(m.heap[k])
          IN IF k = 0 \/ v = 0 \/ name \notin RegNames THEN m2
             ELSE [m2 EXCEPT !.registers[name] = v] : m \in {m0}})

KidOf(v, key) ==
    IF \E i \in 1..Len(v.kids) : v.kids[i].k = key
    THEN v.kids[CHOOSE i \in 1..Len(v.kids) : v.kids[i].k = key].a
    ELSE 0

\* index(): pop the key, pop the container, push container[key] by
\* reference; a tree without the key gets a fresh empty tree under it
index(m0) ==
    Once({LET k == peek(m)
              m1 == pop(m)
              c == peek(m1)
              m2 == pop(m1)
              key == ValueStr(m.heap[k])
          IN IF k = 0 \/ c = 0 THEN m2
             ELSE IF m.heap[c].t # "tree" THEN m2
             ELSE IF KidOf(m.heap[c], key) # 0 THEN pushRef(m2, KidOf(m.heap[c], key))
             ELSE LET a == Alloc(m2.heap)
                  IN [m2 EXCEPT !.stack = Append(@, a),
                                !.heap[a] = TreeV(<<>>),
                                !.heap[c].kids = Append(@, [k |-> key, a |-> a])] : m \in {m0}})

\* assign(): pop the target reference, pop the value, overwrite the cell
assign(m0) ==
    Once({LET r == peek(m)
              m1 == pop(m)
              v == peek(m1)
              m2 == pop(m1)
          IN IF r = 0 \/ v = 0 THEN m2
             ELSE [m2 EXCEPT !.heap[r] = m.heap[v]] : m \in {m0}})

CommitM(m0, k, name) ==
    \E m \in {m0} :
        Commit([Top EXCEPT !.stack = m.stack, !.registers = m.registers], m.heap, k, name)

Machine == Mach(Top, heap)

(***************************************************************************)
(* The executor (tokens.rs)                                                *)
(***************************************************************************)
\* Suite::execute: each expression in order
ExecSuite ==
    /\ At("Suite")
    /\ Commit(Top, heap, ExecAll(Cur.node.c) \o Rest, "suite")
    /\ UNCHANGED <<effects, exitSeen, fs>>

\* Literal::execute: push the literal
ExecLiteral ==
    /\ Running /\ Cur.op = "exec" /\ Cur.node.k \in {"Number", "String"}
    /\ CommitM(push(Machine, IF Cur.node.k = "Number" THEN NumV(Cur.node.n) ELSE StrV(Cur.node.s)),
               Rest, "literal")
    /\ UNCHANGED <<effects, exitSeen, fs>>

\* Identifier::execute: push the name, load()
ExecIdentifier ==
    /\ At("Identifier")
    /\ \E miss \in {"none", "tree"} :
         CommitM(load(push(Machine, StrV(Cur.node.s)), miss), Rest, "identifier")
    /\ UNCHANGED <<effects, exitSeen, fs>>

\* Name::execute, DotName: the head, then push + index() per identifier
ExecDotName ==
    /\ At("DotName")
    /\ Commit(Top, heap,
              <<Exec(Cur.node.a[1])>>
              \o [i \in 1..Len(Cur.node.b) |-> Item("dotindex", Cur.node.b[i], Nil, "")]
              \o Rest, "dotname")
    /\ UNCHANGED <<effects, exitSeen, fs>>

DotIndex ==
    /\ Running /\ Cur.op = "dotindex"
    /\ CommitM(index(push(Machine, StrV(Cur.node.s))), Rest, "dotindex")
    /\ UNCHANGED <<effects, exitSeen, fs>>

\* Name::execute, IndexName: the head, then value + index() per value
ExecIndexName ==
    /\ At("IndexName")
    /\ Commit(Top, heap,
              <<Exec(Cur.node.a[1])>>
              \o [i \in 1..(2 * Len(Cur.node.b)) |->
                    IF i % 2 = 1 THEN Exec(Cur.node.b[(i + 1) \div 2])
                    ELSE Item("index", Nil, Nil, "")]
              \o Rest, "indexname")
    /\ UNCHANGED <<effects, exitSeen, fs>>

Index ==
    /\ Running /\ Cur.op = "index"
    /\ CommitM(index(Machine), Rest, "index")
    /\ UNCHANGED <<effects, exitSeen, fs>>

\* ExecAssignment storing to the head of a dotted or indexed name
ExecAssignmentRebind ==
    /\ At("Assignment")
    /\ LET name == Cur.node.a[1]
           value == Cur.node.b[1]
       IN Commit(Top, heap,
                 (IF name.k = "Identifier"
                  THEN <<Exec(value), Item("store", name, Nil, "")>>
                  ELSE <<Exec(value), Item("store", name.a[1], Nil, "")>>)
                 \o Rest, "assignment")
    /\ UNCHANGED <<effects, exitSeen, fs>>

\* Expr::execute, Assignment: the value, then push + store() for a plain
\* name, the name and assign() for a dotted or indexed one
ExecAssignment ==
    /\ At("Assignment")
    /\ LET name == Cur.node.a[1]
           value == Cur.node.b[1]
       IN Commit(Top, heap,
                 (IF name.k = "Identifier"
                  THEN <<Exec(value), Item("store", name, Nil, "")>>
                  ELSE <<Exec(value), Exec(name), Item("assign", Nil, Nil, "")>>)
                 \o Rest, "assignment")
    /\ UNCHANGED <<effects, exitSeen, fs>>

\* Store without the push of the name
StoreNoName ==
    /\ Running /\ Cur.op = "store"
    /\ CommitM(store(Machine), Rest, "store")
    /\ UNCHANGED <<effects, exitSeen, fs>>

\* the tail of a simple assignment: push the name, store()
Store ==
    /\ Running /\ Cur.op = "store"
    /\ CommitM(store(push(Machine, StrV(Cur.node.s))), Rest, "store")
    /\ UNCHANGED <<effects, exitSeen, fs>>

Assign ==
    /\ Running /\ Cur.op = "assign"
    /\ CommitM(assign(Machine), Rest, "assign")
    /\ UNCHANGED <<effects, exitSeen, fs>>

\* FunctionDef::execute: Assignment(name, Value::Function(func))
ExecFunctionDef ==
    /\ At("FunctionDef")
    /\ Commit(Top, heap, <<Exec(Assignment(Cur.node.a[1], Cur.node.b[1]))>> \o Rest, "functiondef")
    /\ UNCHANGED <<effects, exitSeen, fs>>

\* Function::execute: push the function value
ExecFunction ==
    /\ At("Function")
    /\ CommitM(push(Machine, FnV(Cur.node)), Rest, "function")
    /\ UNCHANGED <<effects, exitSeen, fs>>

\* FnCallSteps without arguments.reverse()
FnCallStepsForward(node) ==
    ExecAll(node.b)
    \o <<Exec(node.a[1])>>
    \o (IF node.a[1].k = "Builtin" THEN <<>> ELSE <<Item("call", Nil, node, "")>>)

\* FnCallSteps with call() after a Value::Builtin as well
FnCallStepsCall(node) ==
    ExecAll(Reverse(node.b)) \o <<Exec(node.a[1])>> \o <<Item("call", Nil, node, "")>>

\* FnCall::execute: the arguments reversed, the function, then call()
\* unless the function is a Value::Builtin
FnCallSteps(node) ==
    ExecAll(Reverse(node.b))
    \o <<Exec(node.a[1])>>
    \o (IF node.a[1].k = "Builtin" THEN <<>> ELSE <<Item("call", Nil, node, "")>>)

ExecFnCall ==
    /\ At("FnCall")
    /\ Commit(Top, heap, FnCallSteps(Cur.node) \o Rest, "fncall")
    /\ UNCHANGED <<effects, exitSeen, fs>>

\* call(): pop the function value and run it on this machine
Call ==
    /\ Running /\ Cur.op = "call"
    /\ LET f == peek(Machine)
           v == heap[f]
       IN CommitM(pop(Machine),
                  (IF f = 0 THEN <<>>
                   ELSE IF v.t = "fn" THEN <<Item("enter", v.fn, Cur.site, "")>>
                   ELSE IF v.t = "host" THEN <<Item("host", StrLit(v.s), Cur.site, "")>>
                   ELSE <<>>) \o Rest, "call")
    /\ UNCHANGED <<effects, exitSeen, fs>>

RECURSIVE BindArgsLast(_, _, _)
\* BindArgs taking the parameters last to first
BindArgsLast(m, args, i) ==
    IF i > Len(args) THEN m
    ELSE BindArgsLast(store(push(m, StrV(args[Len(args) + 1 - i].s))), args, i + 1)

RECURSIVE BindArgs(_, _, _)
\* for arg in args { push(arg); store() }
BindArgs(m, args, i) ==
    IF i > Len(args) THEN m
    ELSE BindArgs(store(push(m, StrV(args[i].s))), args, i + 1)

\* the closure of Function::execute up to the body: a new Shell with the
\* machine's stack and registers, the parameters bound
Enter ==
    /\ Running /\ Cur.op = "enter"
    /\ \E shell \in {[NewShell EXCEPT !.stack = Top.stack, !.registers = Top.registers,
                                        !.site = Cur.site, !.params = Cur.node.b, !.entry = Top.stack]} :
       \E m \in {BindArgs(Mach(shell, heap), Cur.node.b, 1)} :
          /\ frames' = Append(frames, [shell EXCEPT !.stack = m.stack, !.registers = m.registers])
          /\ heap' = Collect(m.heap, frames')
    /\ kont' = <<Item("exec", Suite(Cur.node.c), Cur.site, "fnbody"), Item("return", Nil, Cur.site, "")>> \o Rest
    /\ last' = "enter"
    /\ UNCHANGED <<pc, effects, loops, exitSeen, bound, nProgs, prog, fs, command, user_input>>

\* Return that publishes the registers with the stack
ReturnShared ==
    /\ Running /\ Cur.op = "return"
    /\ frames' = [SubSeq(frames, 1, Depth - 1) EXCEPT ![Depth - 1].stack = Top.stack,
                                                       ![Depth - 1].registers = Top.registers]
    /\ heap' = Collect(heap, frames')
    /\ kont' = Rest
    /\ last' = "return"
    /\ UNCHANGED <<pc, effects, loops, exitSeen, bound, nProgs, prog, fs, command, user_input>>

\* Return that leaves the caller's stack as it was at the call
ReturnDropped ==
    /\ Running /\ Cur.op = "return"
    /\ frames' = SubSeq(frames, 1, Depth - 1)
    /\ heap' = Collect(heap, frames')
    /\ kont' = Rest
    /\ last' = "return"
    /\ UNCHANGED <<pc, effects, loops, exitSeen, bound, nProgs, prog, fs, command, user_input>>

\* the end of the closure: m.stack = shell.machine.stack
Return ==
    /\ Running /\ Cur.op = "return"
    /\ frames' = [SubSeq(frames, 1, Depth - 1) EXCEPT ![Depth - 1].stack = Top.stack]
    /\ heap' = Collect(heap, frames')
    /\ kont' = Rest
    /\ last' = "return"
    /\ UNCHANGED <<pc, effects, loops, exitSeen, bound, nProgs, prog, fs, command, user_input>>

\* the closures machine() registers: print, println, dict
Host ==
    /\ Running /\ Cur.op = "host" /\ Cur.node.s # "eval"
    /\ LET name == Cur.node.s
           m == Machine
           shown == IF peek(m) = 0 THEN Display(StrV("")) ELSE Display(heap[peek(m)])
       IN IF name \in {"print", "println"}
          THEN /\ CommitM(pop(m), Rest, name)
               /\ effects' = Log(effects, Effect(name, shown))
          ELSE /\ CommitM(push(m, TreeV(<<>>)), Rest, name)
               /\ UNCHANGED effects
    /\ UNCHANGED <<exitSeen, fs>>

\* Builtin::execute, Exit: shell.exit()
BuiltinExit ==
    /\ At("Builtin") /\ Cur.node.s = "Exit"
    /\ Commit([Top EXCEPT !.is_done = TRUE], heap, Rest, "exit")
    /\ exitSeen' = TRUE
    /\ UNCHANGED <<effects, fs>>

\* cd without the match on the result of canonicalize
cdUnchecked(directory, dir) == Canonicalize(PathPush(directory, dir)).path

\* Shell::cd: the canonicalised join, the old directory when that fails
cd(directory, dir) ==
    LET result == Canonicalize(PathPush(directory, dir))
    IN IF result.ok THEN result.path ELSE directory

\* Builtin::execute, ChangeDir: get_arg, shell.cd
BuiltinChangeDir ==
    /\ At("Builtin") /\ Cur.node.s = "ChangeDir"
    /\ LET m == Machine
           to == cd(Top.directory, get_arg(m))
       IN /\ Commit([Top EXCEPT !.stack = pop(m).stack, !.directory = to], heap, Rest, "cd")
          /\ effects' = Log(effects, Effect("cd", Display(StrV(to_string(to)))))
    /\ UNCHANGED <<exitSeen, fs>>

\* Builtin::execute, WorkingDir: shell.wd() pushes the directory string
BuiltinWorkingDir ==
    /\ At("Builtin") /\ Cur.node.s = "WorkingDir"
    /\ CommitM(push(Machine, StrV(to_string(Top.directory))), Rest, "pwd")
    /\ UNCHANGED <<effects, exitSeen, fs>>

\* a call of the host file system: its name and its path operands
HostCall(ev, p, q) == [ev |-> ev, t |-> q, n |-> 0, s |-> p]

RECURSIVE LogAll(_, _)
LogAll(es, calls) == IF calls = <<>> THEN es ELSE LogAll(Log(es, Head(calls)), Tail(calls))

\* Value to_string (Display): what {} shows
Shown(v) ==
    IF v.t \in {"str", "list"} THEN v.s
    ELSE IF v.t = "num" THEN NumStr(v.n)
    ELSE "<" \o v.t \o ">"

\* the orders in which the host may yield a set of names
Orders(S) == {sq \in [1..Cardinality(S) -> S] : Range(sq) = S}

\* Shell::ls: the directory read, dir = "" standing for None when absent
ls(directory, absent, dir) == IF absent THEN directory ELSE PathPush(directory, dir)

\* Builtin::execute, List: pop().map(to_string), shell.ls pushes one list
BuiltinList ==
    /\ At("Builtin") /\ Cur.node.s = "List"
    /\ LET m == Machine
           arg == peek(m)
           directory == ls(Top.directory, arg = 0, IF arg = 0 THEN "" ELSE Shown(heap[arg]))
       IN /\ \E result \in Orders(read_dir(fs, directory)) :
               CommitM(push(pop(m), ListV(result)), Rest, "ls")
          /\ effects' = Log(effects, HostCall("read_dir", to_string(directory), ""))
    /\ UNCHANGED <<exitSeen, fs>>

\* Shell::mv: rename, whatever the operands
mv(directory, f, old, new) ==
    LET old_dir == PathPush(directory, old)
        new_dir == PathPush(directory, new)
    IN [fs |-> rename(f, old_dir, new_dir),
        calls |-> <<HostCall("rename", to_string(old_dir), to_string(new_dir))>>]

\* Shell::rm: nothing for "", else remove_dir_all and remove_file
rm(directory, f, path) ==
    IF path = "" THEN [fs |-> f, calls |-> <<>>]
    ELSE LET d == PathPush(directory, path)
         IN [fs |-> remove_file(remove_dir_all(f, d), d),
             calls |-> <<HostCall("remove_dir_all", to_string(d), ""),
                         HostCall("remove_file", to_string(d), "")>>]

\* Shell::mkdir: nothing for "", else create_dir_all
mkdir(directory, f, path) ==
    IF path = "" THEN [fs |-> f, calls |-> <<>>]
    ELSE LET d == PathPush(directory, path)
         IN [fs |-> create_dir_all(f, d), calls |-> <<HostCall("create_dir_all", to_string(d), "")>>]

\* Shell::mkf: nothing for "", else write
mkf(directory, f, path) ==
    IF path = "" THEN [fs |-> f, calls |-> <<>>]
    ELSE LET d == PathPush(directory, path)
         IN [fs |-> write(f, d), calls |-> <<HostCall("write", to_string(d), "")>>]

\* Builtin::execute, Move: old = get_arg, new = get_arg, shell.mv
BuiltinMove ==
    /\ At("Builtin") /\ Cur.node.s = "Move"
    /\ LET m == Machine
           old == get_arg(m)
           new == get_arg(pop(m))
           done == mv(Top.directory, fs, old, new)
       IN /\ CommitM(pop(pop(m)), Rest, "mv")
          /\ fs' = done.fs
          /\ effects' = LogAll(effects, done.calls)
    /\ UNCHANGED exitSeen

\* Builtin::execute, Remove: get_arg, shell.rm
BuiltinRemove ==
    /\ At("Builtin") /\ Cur.node.s = "Remove"
    /\ LET m == Machine
           done == rm(Top.directory, fs, get_arg(m))
       IN /\ CommitM(pop(m), Rest, "rm")
          /\ fs' = done.fs
          /\ effects' = LogAll(effects, done.calls)
    /\ UNCHANGED exitSeen

\* Builtin::execute, MakeDir: get_arg, shell.mkdir
BuiltinMakeDir ==
    /\ At("Builtin") /\ Cur.node.s = "MakeDir"
    /\ LET m == Machine
           done == mkdir(Top.directory, fs, get_arg(m))
       IN /\ CommitM(pop(m), Rest, "mkdir")
          /\ fs' = done.fs
          /\ effects' = LogAll(effects, done.calls)
    /\ UNCHANGED exitSeen

\* Builtin::execute, MakeFile: get_arg, shell.mkf
BuiltinMakeFile ==
    /\ At("Builtin") /\ Cur.node.s = "MakeFile"
    /\ LET m == Machine
           done == mkf(Top.directory, fs, get_arg(m))
       IN /\ CommitM(pop(m), Rest, "mkf")
          /\ fs' = done.fs
          /\ effects' = LogAll(effects, done.calls)
    /\ UNCHANGED exitSeen

\* ret_val with true for None
ret_valSome(m) == IF peek(m) = 0 THEN TRUE ELSE Truthy(m.heap[peek(m)])

\* ret_val: pop, bool::from, false for None
ret_val(m) == IF peek(m) = 0 THEN FALSE ELSE Truthy(m.heap[peek(m)])

\* Expr::execute, WhileLoop: the condition, then the test
ExecWhile ==
    /\ At("WhileLoop")
    /\ Commit(Top, heap,
              <<Item("exec", Cur.node.a[1], Nil, "cond"), Item("whiletest", Cur.node, Nil, "")>> \o Rest,
              "while")
    /\ UNCHANGED <<effects, exitSeen, fs>>

\* WhileSteps that does not execute the condition again
WhileStepsOnce(node, taken) ==
    IF taken
    THEN <<Item("exec", Suite(node.c), Nil, "body"),
           Item("whiletest", node, Nil, "")>>
    ELSE <<>>

\* what follows the test of a while: the body and the condition again, or nothing
WhileSteps(node, taken) ==
    IF taken
    THEN <<Item("exec", Suite(node.c), Nil, "body"),
           Item("exec", node.a[1], Nil, "cond"),
           Item("whiletest", node, Nil, "")>>
    ELSE <<>>

WhileTest ==
    /\ Running /\ Cur.op = "whiletest"
    /\ LET taken == ret_val(Machine)
       IN /\ frames' = [frames EXCEPT ![Depth].stack = pop(Machine).stack]
          /\ heap' = Collect(heap, frames')
          /\ kont' = WhileSteps(Cur.node, taken) \o Rest
          /\ loops' = IF taken THEN [loops EXCEPT !.trues = Bump(@)]
                      ELSE [loops EXCEPT !.falses = Bump(@)]
    /\ last' = "whiletest"
    /\ UNCHANGED <<pc, effects, exitSeen, bound, nProgs, prog, fs, command, user_input>>

\* Expr::execute, IfThenElse: the condition, then the test
ExecIf ==
    /\ At("IfThenElse")
    /\ Commit(Top, heap, <<Exec(Cur.node.a[1]), Item("iftest", Cur.node, Nil, "")>> \o Rest, "if")
    /\ UNCHANGED <<effects, exitSeen, fs>>

IfTest ==
    /\ Running /\ Cur.op = "iftest"
    /\ CommitM(pop(Machine),
               <<Exec(Suite(IF ret_val(Machine) THEN Cur.node.b ELSE Cur.node.c))>> \o Rest,
               "iftest")
    /\ UNCHANGED <<effects, exitSeen, fs>>

(***************************************************************************)
(* The parser (parser.rs).  A parser is an operator of the source text and *)
(* a position; it yields ok, the value parsed and the position after it.   *)
(* Alternatives are ordered: the first that succeeds is taken.             *)
(***************************************************************************)
Failed == [ok |-> FALSE, v |-> Nil, i |-> 0]

Parsed(v, i) == [ok |-> TRUE, v |-> v, i |-> i]

Chars(str) == {SubSeq(str, i, i) : i \in 1..Len(str)}

Whitespace == {" ", "\t", "\n", "\r"}

Digits == Chars("0123456789")

Alpha == Chars("abcdefghijklmnopqrstuvwxyzABCDEFGHIJKLMNOPQRSTUVWXYZ_")

\* the character at position i, "" past the end
CharAt(src, i) == IF i >= 1 /\ i <= Len(src) THEN SubSeq(src, i, i) ELSE ""

RECURSIVE space(_, _)
\* space(): any whitespace
space(src, i) == IF CharAt(src, i) \in Whitespace THEN space(src, i + 1) ELSE i

\* seq(s): the text s itself
seq(src, i, s) == i + Len(s) - 1 <= Len(src) /\ SubSeq(src, i, i + Len(s) - 1) = s

\* seq_no_ws(s): s with whitespace allowed around it
seq_no_ws(src, i, s) ==
    LET j == space(src, i)
    IN IF seq(src, j, s) THEN Parsed(Nil, space(src, j + Len(s))) ELSE Failed

\* eof()
eof(src, i) == i > Len(src)

RECURSIVE WordEnd(_, _, _)
\* the position after the characters of class at i
WordEnd(src, i, class) == IF CharAt(src, i) \in class THEN WordEnd(src, i + 1, class) ELSE i

\* identifier(): a letter or _, then letters, digits and _
identifier(src, i) ==
    IF CharAt(src, i) \in Alpha
    THEN LET j == WordEnd(src, i, Alpha \cup Digits)
         IN Parsed(Identifier(SubSeq(src, i, j - 1)), j)
    ELSE Failed

RECURSIVE to_number(_, _, _, _)
\* to_number of the digits from i up to j
to_number(src, i, j, acc) ==
    IF i >= j THEN acc
    ELSE to_number(src, i + 1, j,
                   10 * acc + (CHOOSE d \in 0..9 : SubSeq("0123456789", d + 1, d + 1) = CharAt(src, i)))

\* number(): digits
number(src, i) ==
    IF CharAt(src, i) \in Digits
    THEN LET j == WordEnd(src, i, Digits)
         IN Parsed(NumLit(to_number(src, i, j, 0)), j)
    ELSE Failed

RECURSIVE QuoteEnd(_, _)
\* the position of the closing quote from i on, 0 when there is none
QuoteEnd(src, i) ==
    IF i > Len(src) THEN 0
    ELSE IF CharAt(src, i) = "\"" THEN i
    ELSE QuoteEnd(src, i + 1)

\* string(): double-quoted text
string(src, i) ==
    IF CharAt(src, i) = "\"" /\ QuoteEnd(src, i + 1) # 0
    THEN LET j == QuoteEnd(src, i + 1)
         IN Parsed(StrLit(SubSeq(src, i + 1, j - 1)), j + 1)
    ELSE Failed

\* p << space()
Trail(src, r) == IF r.ok THEN Parsed(r.v, space(src, r.i)) ELSE Failed

\* string_literal: space() >> string() << space()
string_literal(src, i) == Trail(src, string(src, space(src, i)))

\* number_literal: space() >> number() << space()
number_literal(src, i) == Trail(src, number(src, space(src, i)))

\* literal: string_literal | number_literal
literal(src, i) ==
    LET s == string_literal(src, i)
    IN IF s.ok THEN s ELSE number_literal(src, i)

\* the keywords of builtin(), in the order they are tried
Keywords ==
    <<[w |-> "ls", b |-> "List"], [w |-> "mv", b |-> "Move"], [w |-> "cd", b |-> "ChangeDir"],
      [w |-> "rm", b |-> "Remove"], [w |-> "mkdir", b |-> "MakeDir"], [w |-> "mkf", b |-> "MakeFile"],
      [w |-> "pwd", b |-> "WorkingDir"], [w |-> "exit", b |-> "Exit"]>>

\* builtin: the first keyword that seq_no_ws finds
builtin(src, i) ==
    LET hits == {n \in 1..Len(Keywords) : seq_no_ws(src, i, Keywords[n].w).ok}
    IN IF hits = {} THEN Failed
       ELSE LET n == CHOOSE n \in hits : \A m \in hits : n <= m
            IN Parsed(Builtin(Keywords[n].b), seq_no_ws(src, i, Keywords[n].w).i)

\* ident: space() >> identifier() << space()
ident(src, i) == Trail(src, identifier(src, space(src, i)))

RECURSIVE value(_, _), suite(_, _), Values(_, _), Arguments(_, _), Exprs(_, _),
          Indices(_, _), Dots(_, _), Params(_, _), SkipComments(_, _)

\* p & q, p >> q, p << q: what follows p is parsed from where p ended
Then(r, F(_)) == IF r.ok THEN F(r) ELSE Failed

\* p | q: q is tried where p was, and only if p failed
Or(r, q) == IF r.ok THEN r ELSE q

\* group: "(" value ")"
group(src, i) ==
    Then(seq_no_ws(src, i, "("), LAMBDA open :
    Then(value(src, open.i), LAMBDA v :
    Then(seq_no_ws(src, v.i, ")"), LAMBDA close :
    Parsed(v.v, close.i))))

\* the head of a dotted or indexed name: group | literal | ident
NameHead(src, i) == Or(group(src, i), Or(literal(src, i), ident(src, i)))

\* (sym('.') >> ident) * (..)
Dots(src, i) ==
    IF CharAt(src, i) = "."
    THEN Or(Then(ident(src, i + 1), LAMBDA id :
            Then(Dots(src, id.i), LAMBDA more :
            Parsed(<<id.v>> \o more.v, more.i))),
            Parsed(<<>>, i))
    ELSE Parsed(<<>>, i)

\* (seq_no_ws("[") >> value << seq_no_ws("]")) * (..)
Indices(src, i) ==
    Or(Then(seq_no_ws(src, i, "["), LAMBDA open :
       Then(value(src, open.i), LAMBDA v :
       Then(seq_no_ws(src, v.i, "]"), LAMBDA close :
       Then(Indices(src, close.i), LAMBDA more :
       Parsed(<<v.v>> \o more.v, more.i))))),
       Parsed(<<>>, i))

\* dot_ident: a head & one or more .identifier
dot_ident(src, i) ==
    Then(NameHead(src, i), LAMBDA head :
    Then(Dots(src, head.i), LAMBDA ids :
    IF ids.v # <<>> THEN Parsed(DotName(head.v, ids.v), ids.i) ELSE Failed))

\* index_name: a head & one or more [value]
index_name(src, i) ==
    Then(NameHead(src, i), LAMBDA head :
    Then(Indices(src, head.i), LAMBDA ixs :
    IF ixs.v # <<>> THEN Parsed(IndexName(head.v, ixs.v), ixs.i) ELSE Failed))

\* name: dot_ident | index_name | ident
name(src, i) == Or(dot_ident(src, i), Or(index_name(src, i), ident(src, i)))

\* value * (..)
Values(src, i) ==
    Or(Then(value(src, i), LAMBDA v :
       Then(Values(src, v.i), LAMBDA more :
       Parsed(<<v.v>> \o more.v, more.i))),
       Parsed(<<>>, i))

\* the items of array("(", value, ")") after the first: ("," value) * (..)
Arguments(src, i) ==
    Or(Then(seq_no_ws(src, i, ","), LAMBDA comma :
       Then(value(src, comma.i), LAMBDA v :
       Then(Arguments(src, v.i), LAMBDA more :
       Parsed(<<v.v>> \o more.v, more.i)))),
       Parsed(<<>>, i))

\* array("(", value, ")"): values between parentheses, commas between them
array_value(src, i) ==
    Then(seq_no_ws(src, i, "("), LAMBDA open :
    Then(Or(Then(value(src, open.i), LAMBDA first :
            Then(Arguments(src, first.i), LAMBDA more :
            Parsed(<<first.v>> \o more.v, more.i))),
            Parsed(<<>>, open.i)), LAMBDA items :
    Then(seq_no_ws(src, items.i, ")"), LAMBDA close :
    Parsed(items.v, close.i))))

\* the items of array("(", ident, ")") after the first
Params(src, i) ==
    Or(Then(seq_no_ws(src, i, ","), LAMBDA comma :
       Then(ident(src, comma.i), LAMBDA v :
       Then(Params(src, v.i), LAMBDA more :
       Parsed(<<v.v>> \o more.v, more.i)))),
       Parsed(<<>>, i))

\* array("(", ident, ")")
array_ident(src, i) ==
    Then(seq_no_ws(src, i, "("), LAMBDA open :
    Then(Or(Then(ident(src, open.i), LAMBDA first :
            Then(Params(src, first.i), LAMBDA more :
            Parsed(<<first.v>> \o more.v, more.i))),
            Parsed(<<>>, open.i)), LAMBDA items :
    Then(seq_no_ws(src, items.i, ")"), LAMBDA close :
    Parsed(items.v, close.i))))

\* fncall: builtin & value * (1..), or (builtin | name | group) & array
fncall(src, i) ==
    Or(Then(builtin(src, i), LAMBDA b :
       Then(Values(src, b.i), LAMBDA juxta :
       IF juxta.v # <<>> THEN Parsed(FnCall(b.v, juxta.v), juxta.i) ELSE Failed)),
       Then(Or(builtin(src, i), Or(name(src, i), group(src, i))), LAMBDA callee :
       Then(array_value(src, callee.i), LAMBDA args :
       Parsed(FnCall(callee.v, args.v), args.i))))

\* function: "fn" >> (array("(", ident, ")") & suite)
function(src, i) ==
    Then(seq_no_ws(src, i, "fn"), LAMBDA fn :
    Then(array_ident(src, fn.i), LAMBDA params :
    Then(suite(src, params.i), LAMBDA body :
    Parsed(Function(params.v, body.v.c), body.i))))

\* function_def: ("fn" >> name) & (array("(", ident, ")") & suite)
function_def(src, i) ==
    Then(seq_no_ws(src, i, "fn"), LAMBDA fn :
    Then(name(src, fn.i), LAMBDA n :
    Then(array_ident(src, n.i), LAMBDA params :
    Then(suite(src, params.i), LAMBDA body :
    Parsed(FunctionDef(n.v, Function(params.v, body.v.c)), body.i)))))

\* flat_value: literal
flat_value(src, i) == literal(src, i)

\* recursive_value with name tried before builtin
recursive_valueNameFirst(src, i) ==
    Or(function(src, i), Or(fncall(src, i), Or(name(src, i), Or(builtin(src, i), group(src, i)))))

\* recursive_value: function | fncall | builtin | name | group
recursive_value(src, i) ==
    Or(function(src, i), Or(fncall(src, i), Or(builtin(src, i), Or(name(src, i), group(src, i)))))

\* value: recursive_value | flat_value
value(src, i) == Or(recursive_value(src, i), flat_value(src, i))

\* p << opt(seq_no_ws(";"))
Semicolon(src, r) == Or(Then(r, LAMBDA p : Then(seq_no_ws(src, p.i, ";"), LAMBDA semi : Parsed(p.v, semi.i))), r)

\* assignment: name & ("=" >> value)
assignment(src, i) ==
    Then(name(src, i), LAMBDA n :
    Then(seq_no_ws(src, n.i, "="), LAMBDA eq :
    Then(value(src, eq.i), LAMBDA v :
    Parsed(Assignment(n.v, v.v), v.i))))

\* while_loop: ("while" >> value) & suite
while_loop(src, i) ==
    Then(seq_no_ws(src, i, "while"), LAMBDA kw :
    Then(value(src, kw.i), LAMBDA v :
    Then(suite(src, v.i), LAMBDA body :
    Parsed(WhileLoop(v.v, body.v.c), body.i))))

\* if_then_else: ("if" >> value) & suite & opt("else" >> suite)
if_then_else(src, i) ==
    Then(seq_no_ws(src, i, "if"), LAMBDA kw :
    Then(value(src, kw.i), LAMBDA v :
    Then(suite(src, v.i), LAMBDA then :
    Or(Then(seq_no_ws(src, then.i, "else"), LAMBDA else :
       Then(suite(src, else.i), LAMBDA other :
       Parsed(IfThenElse(v.v, then.v.c, other.v.c), other.i))),
       Parsed(IfThenElse(v.v, then.v.c, <<>>), then.i)))))

\* comment: "#" up to the end of the line
comment(src, i) ==
    Then(seq_no_ws(src, i, "#"), LAMBDA hash :
    Parsed(Nil, WordEnd(src, hash.i, Chars(src) \ {"\n"})))

\* opt(comment * (..))
SkipComments(src, i) ==
    Or(Then(comment(src, i), LAMBDA c :
       IF c.i > i THEN Parsed(Nil, SkipComments(src, c.i).i) ELSE Failed),
       Parsed(Nil, i))

\* expr: assignment | while_loop | if_then_else | function_def | value,
\* the first and the last with an optional ";", comments around
expr(src, i) ==
    Then(SkipComments(src, i), LAMBDA start :
    Then(Or(Semicolon(src, assignment(src, start.i)),
         Or(while_loop(src, start.i),
         Or(if_then_else(src, start.i),
         Or(function_def(src, start.i),
            Semicolon(src, value(src, start.i)))))), LAMBDA e :
    Parsed(e.v, SkipComments(src, e.i).i)))

\* expr * (..)
Exprs(src, i) ==
    Or(Then(expr(src, i), LAMBDA e :
       Then(Exprs(src, e.i), LAMBDA more :
       Parsed(<<e.v>> \o more.v, more.i))),
       Parsed(<<>>, i))

\* suite: "{" >> expr * (..) << "}"
suite(src, i) ==
    Then(seq_no_ws(src, i, "{"), LAMBDA open :
    Then(Exprs(src, open.i), LAMBDA body :
    Then(seq_no_ws(src, body.i, "}"), LAMBDA close :
    Parsed(Suite(body.v), close.i))))

\* program: expr * (..) << eof()
program(src) ==
    Then(Exprs(src, 1), LAMBDA body :
    IF eof(src, body.i) THEN Parsed(Suite(body.v), body.i) ELSE Failed)

(***************************************************************************)
(* Shell::run, line by line.                                               *)
(***************************************************************************)
\* the lines a user types
Lines == {"", " ", "x = 2", "x =", " 2", ")", "ls = 1"}

\* user_input.trim() == ""
Blank(line) == \A i \in 1..Len(line) : CharAt(line, i) \in Whitespace

\* the println of a parse error
ParseError == [ev |-> "error", t |-> "", n |-> 0, s |-> ""]

\* Accumulate with a command that outlives the prompt
AccumulateKept(line) == command \o line

\* command += &user_input, command being new at the prompt
Accumulate(line) == IF pc = "prompt" THEN line ELSE command \o line

\* Outcome without the test of the newest line
OutcomeStrict(buffer, line) == IF program(buffer).ok THEN "accept" ELSE "error"

\* what follows a line: the tests of the inner while and of the match
Outcome(buffer, line) ==
    IF program(buffer).ok THEN "accept"
    ELSE IF ~ Blank(line) THEN "more"
    ELSE "error"

\* one line read at the prompt or at the continuation prompt: it joins the
\* buffer; the buffer is executed when it parses, more is asked for when it
\* does not and the line is not blank, an error is printed when it is
ReadLine(line) ==
    /\ pc \in {"prompt", "more"}
    /\ ~ frames[1].is_done
    /\ pc = "prompt" => nProgs < MaxProgs
    /\ Len(Accumulate(line)) <= MaxCommand
    /\ \E buffer \in {Accumulate(line)} :
       \E next \in {Outcome(buffer, line)} :
          /\ command' = buffer
          /\ user_input' = line
          /\ last' = next
          /\ pc' = IF next = "accept" THEN "exec" ELSE IF next = "more" THEN "more" ELSE "prompt"
          /\ kont' = IF next = "accept" THEN <<Exec(program(buffer).v)>> ELSE <<>>
          /\ prog' = IF next = "accept" THEN program(buffer).v ELSE Nil
          /\ effects' = IF next = "error" THEN <<ParseError>> ELSE <<>>
    /\ nProgs' = IF pc = "prompt" THEN nProgs + 1 ELSE nProgs
    /\ loops' = NoLoops
    /\ exitSeen' = FALSE
    /\ UNCHANGED <<frames, heap, bound, fs>>

(***************************************************************************)
(* eval (shell.rs 406-427)                                                 *)
(***************************************************************************)
\* the Refs machine() makes for a further Shell::new(): free cells, lowest
\* first
FreshCells(h) ==
    LET free == {a \in Addrs : h[a].t = "free"}
    IN [i \in 1..Len(machine.cells) |->
          CHOOSE a \in free : Cardinality({b \in free : b < a}) = i - 1]

\* Shell::new() on those cells
ShellNew(cells) ==
    [NewShell EXCEPT !.registers = [n \in RegNames |->
                                     IF machine.registers[n] = 0 THEN 0
                                     ELSE cells[machine.registers[n]]]]

\* the closure of eval up to execute: pop the command, parse its text, and
\* start the program in a new Shell; nothing on the stack returns at once, a
\* text that does not parse prints the error
\* program().parse of the texts the catalog hands to eval, parsed once
EvalParses == {<<src, program(src)>> : src \in EvalSources}

\* program().parse(&format!("{}", command))
ParseCommand(text) ==
    IF text \in EvalSources
    THEN Once({p \in EvalParses : p[1] = text})[2]
    ELSE program(text)

HostEval ==
    /\ Running /\ Cur.op = "host" /\ Cur.node.s = "eval"
    /\ \E m \in {Machine} :
         IF peek(m) = 0
         THEN /\ CommitM(m, Rest, "eval")
              /\ UNCHANGED effects
         ELSE \E parsed \in {ParseCommand(ValueStr(heap[peek(m)]))} :
              IF parsed.ok
              THEN /\ Cardinality({a \in Addrs : heap[a].t = "free"}) >= Len(machine.cells) + 2
                   /\ \E cells \in {FreshCells(heap)} :
                        /\ frames' = Append([frames EXCEPT ![Depth].stack = pop(m).stack],
                                            [ShellNew(cells) EXCEPT !.site = Cur.site])
                        /\ heap' = Collect([a \in Addrs |->
                                               IF \E i \in 1..Len(cells) : cells[i] = a
                                               THEN machine.cells[CHOOSE i \in 1..Len(cells) : cells[i] = a]
                                               ELSE heap[a]], frames')
                   /\ kont' = <<Exec(parsed.v), Item("evalend", Nil, Cur.site, "")>> \o Rest
                   /\ last' = "eval"
                   /\ UNCHANGED <<pc, effects, loops, bound, nProgs, prog, command, user_input>>
              ELSE /\ CommitM(pop(m), Rest, "eval")
                   /\ effects' = Log(effects, ParseError)
    /\ UNCHANGED <<exitSeen, fs>>

\* EvalEnd that hands the stack of the inner shell to the caller
EvalEndPublished ==
    /\ Running /\ Cur.op = "evalend"
    /\ frames' = [SubSeq(frames, 1, Depth - 1) EXCEPT ![Depth - 1].stack = Top.stack]
    /\ heap' = Collect(heap, frames')
    /\ kont' = Rest
    /\ last' = "evalend"
    /\ UNCHANGED <<pc, effects, loops, exitSeen, bound, nProgs, prog, fs, command, user_input>>

\* the end of the closure of eval: shell.print_stack(), shell.clear_stack(),
\* and the inner shell is dropped
EvalEnd ==
    /\ Running /\ Cur.op = "evalend"
    /\ \E printed \in {print_stack(heap, Top.stack, effects)} :
         effects' = printed.effects
    /\ frames' = SubSeq(frames, 1, Depth - 1)
    /\ heap' = Collect(heap, frames')
    /\ kont' = Rest
    /\ last' = "evalend"
    /\ UNCHANGED <<pc, loops, exitSeen, bound, nProgs, prog, fs, command, user_input>>

Step ==
    \/ ExecSuite
    \/ ExecLiteral
    \/ ExecIdentifier
    \/ ExecDotName
    \/ DotIndex
    \/ ExecIndexName
    \/ Index
    \/ ExecAssignment
    \/ Store
    \/ Assign
    \/ ExecFunctionDef
    \/ ExecFunction
    \/ ExecFnCall
    \/ Call
    \/ Enter
    \/ Return
    \/ Host
    \/ HostEval
    \/ EvalEnd
    \/ BuiltinExit
    \/ BuiltinChangeDir
    \/ BuiltinWorkingDir
    \/ BuiltinList
    \/ BuiltinMove
    \/ BuiltinRemove
    \/ BuiltinMakeDir
    \/ BuiltinMakeFile
    \/ ExecWhile
    \/ WhileTest
    \/ ExecIf
    \/ IfTest

Next ==
    \/ \E p \in Programs : Submit(p)
    \/ \E line \in Lines : ReadLine(line)
    \/ PrintClear
    \/ Step

Spec == Init /\ [][Next]_vars

(***************************************************************************)
(* The parser on its own: program() applied to one source text.            *)
(***************************************************************************)
\* the words put into the templates: the keywords and two identifiers
Words == {Keywords[n].w : n \in 1..Len(Keywords)} \cup {"x", "k"}

ValueTemplates == 1..10

TargetTemplates == 11..14

\* a source text with the word w at one position
Template(t, w) ==
    CASE t = 1 -> w
      [] t = 2 -> "x = " \o w
      [] t = 3 -> "f(" \o w \o ")"
      [] t = 4 -> "f(1, " \o w \o ")"
      [] t = 5 -> "while " \o w \o " {}"
      [] t = 6 -> "if " \o w \o " {} else {}"
      [] t = 7 -> "(" \o w \o ")"
      [] t = 8 -> "while 0 { " \o w \o " }"
      [] t = 9 -> "a[" \o w \o "]"
      [] t = 10 -> "x = (" \o w \o ");"
      [] t = 11 -> w \o " = 1"
      [] t = 12 -> w \o ".k = 1"
      [] t = 13 -> w \o "[0] = 1"
      [] t = 14 -> "fn " \o w \o "() {}"

\* the program Template(t, w) stands for when w is read as the value v
Expected(t, v) ==
    CASE t = 1 -> Suite(<<v>>)
      [] t = 2 -> Suite(<<Assignment(Identifier("x"), v)>>)
      [] t = 3 -> Suite(<<FnCall(Identifier("f"), <<v>>)>>)
      [] t = 4 -> Suite(<<FnCall(Identifier("f"), <<NumLit(1), v>>)>>)
      [] t = 5 -> Suite(<<WhileLoop(v, <<>>)>>)
      [] t = 6 -> Suite(<<IfThenElse(v, <<>>, <<>>)>>)
      [] t = 7 -> Suite(<<v>>)
      [] t = 8 -> Suite(<<WhileLoop(NumLit(0), <<v>>)>>)
      [] t = 9 -> Suite(<<IndexName(Identifier("a"), <<v>>)>>)
      [] t = 10 -> Suite(<<Assignment(Identifier("x"), v)>>)

\* identifiers, three of them with a keyword as their first letters
LongWords == {"list", "cdx", "rmdir", "exit_code"}

Sources ==
    {Template(t, w) : t \in ValueTemplates \cup TargetTemplates, w \in Words}
    \cup {Template(t, w) : t \in ValueTemplates, w \in LongWords}

ParseInit ==
    /\ pc = "parse"
    /\ command \in Sources
    /\ frames = <<NewShell>>
    /\ heap = [a \in Addrs |-> IF a <= Len(machine.cells) THEN machine.cells[a] ELSE FreeCell]
    /\ kont = <<>>
    /\ effects = <<>>
    /\ loops = NoLoops
    /\ exitSeen = FALSE
    /\ bound = [x \in UserNames |-> Unbound]
    /\ last = "new"
    /\ nProgs = 0
    /\ prog = Nil
    /\ fs = FsInit
    /\ user_input = ""

\* program().parse(&command)
ParseProgram ==
    /\ pc = "parse"
    /\ pc' = "parsed"
    /\ \E r \in {program(command)} :
         /\ prog' = r.v
         /\ last' = IF r.ok THEN "accept" ELSE "error"
    /\ UNCHANGED <<frames, heap, kont, effects, loops, exitSeen, bound, nProgs, fs, command, user_input>>

ParseSpec == ParseInit /\ [][ParseProgram]_vars

\* the executor never stops of its own and the REPL always drains
FairSpec == Spec /\ WF_vars(Step) /\ WF_vars(PrintClear)

(***************************************************************************)
(* Properties.                                                             *)
(***************************************************************************)
AtPrompt == pc \in {"prompt", "halted"}

Drained == AtPrompt /\ last = "drain"

Now(op) == pc = "exec" /\ kont # <<>> /\ Cur.op = op

ReplShell == frames[1]

\* the value a literal pushes
LitValue(lit) == IF lit.k = "Number" THEN NumV(lit.n) ELSE StrV(lit.s)

\* the argument pushes exactly one value under registers regs
OneValue(arg, regs) ==
    \/ arg.k \in {"Number", "String"}
    \/ arg.k = "Identifier" /\ regs[arg.s] # 0

\* the Ref at addr is the value of the argument
ArgIs(arg, addr, regs) ==
    IF arg.k = "Identifier" THEN addr = regs[arg.s] ELSE heap[addr] = LitValue(arg)

\* C1: whenever the REPL is back at a prompt (or has ended), the machine's
\* evaluation stack is empty, whatever the program pushed.
C1_StackDrained == AtPrompt => (Depth = 1 /\ ReplShell.stack = <<>>)

\* a program that left values on the stack has been run and drained
C1_Witness ==
    /\ pc = "prompt" /\ last = "drain" /\ prog = PushProg
    /\ Len(effects) = 2 /\ effects[1].ev = "result"

\* C2: a binding the REPL shell stored under x is in the REPL shell's
\* registers, with the value stored, in every later state (across the drain
\* and the prompts) until the REPL shell stores to x again.
C2_RegistersPersist ==
    \A x \in UserNames :
        bound[x] # Unbound =>
            /\ ReplShell.registers[x] # 0
            /\ Display(heap[ReplShell.registers[x]]) = bound[x]

\* x = 2 in one program, another program run and drained after it
C2_Witness ==
    /\ pc = "prompt" /\ last = "drain" /\ nProgs = 2 /\ prog = PushProg
    /\ bound["x"] = Display(NumV(2))
    /\ heap[ReplShell.registers["x"]] = NumV(2)

\* C3: at callee entry (call() has popped the function value) of a call
\* whose arguments each push one value, the top of the stack is the value of
\* the first argument, below it the second, and so on.
C3_ArgsOnTop ==
    (Now("enter") /\ \A i \in 1..Len(Cur.site.b) : OneValue(Cur.site.b[i], Top.registers)) =>
        /\ Len(Top.stack) >= Len(Cur.site.b)
        /\ \A i \in 1..Len(Cur.site.b) :
             ArgIs(Cur.site.b[i], Top.stack[Len(Top.stack) + 1 - i], Top.registers)

\* callee entry of f(1, "s")
C3_Witness ==
    /\ Now("enter") /\ Cur.site.b = <<NumLit(1), StrLit("s")>>
    /\ heap[Top.stack[Len(Top.stack)]] = NumV(1)
    /\ heap[Top.stack[Len(Top.stack) - 1]] = StrV("s")

Distinct(sq) == \A i, j \in 1..Len(sq) : sq[i] = sq[j] => i = j

Caller == frames[Depth - 1]

\* C4: when the body of a user function with distinct parameters p1..pn,
\* called with n arguments that each push one value, starts, register pi
\* holds the value of the i-th argument and the n values are off the stack.
C4_ParamsBound ==
    (/\ Now("exec") /\ Cur.tag = "fnbody"
     /\ Len(Top.site.b) = Len(Top.params) /\ Distinct(Top.params)
     /\ \A i \in 1..Len(Top.site.b) : OneValue(Top.site.b[i], Caller.registers)) =>
        /\ \A i \in 1..Len(Top.params) :
             /\ Top.registers[Top.params[i].s] = Top.entry[Len(Top.entry) + 1 - i]
             /\ ArgIs(Top.site.b[i], Top.registers[Top.params[i].s], Caller.registers)
        /\ Top.stack = SubSeq(Top.entry, 1, Len(Top.entry) - Len(Top.params))

\* the body of f(a, b) starts after f(1, "s"), the 7 pushed before still there
C4_Witness ==
    /\ Now("exec") /\ Cur.tag = "fnbody" /\ Top.site.b = <<NumLit(1), StrLit("s")>>
    /\ heap[Top.registers["a"]] = NumV(1) /\ heap[Top.registers["b"]] = StrV("s")
    /\ Len(Top.stack) = 1 /\ heap[Top.stack[1]] = NumV(7)

\* C5 as claimed: the effects of the first argument of g(a1, a2) come
\* before the effects of the second.
C5_LeftToRight ==
    Drained =>
        /\ prog = PrintArgsProg =>
             effects = <<Effect("println", Display(NumV(1))), Effect("println", Display(NumV(2)))>>
        /\ prog = CdArgsProg =>
             (Len(effects) = 2 /\ effects[1].ev = "cd" /\ effects[2].ev = "println")

\* C5: the arguments of a call are evaluated right to left, in the order
\* their values are pushed: every effect of a later argument comes before
\* any effect of an earlier one.
C5_RightToLeft ==
    Drained =>
        /\ prog = PrintArgsProg =>
             effects = <<Effect("println", Display(NumV(2))), Effect("println", Display(NumV(1)))>>
        /\ prog = CdArgsProg =>
             /\ Len(effects) = 2 /\ effects[1].ev = "println" /\ effects[2].ev = "cd"
             /\ nProgs = 1 => (effects[1].s = "/home" /\ effects[2].s = "/home/a")

\* g(cd("a"), println(pwd)) has printed the old directory, then changed it
C5_Witness ==
    /\ Drained /\ prog = CdArgsProg /\ nProgs = 1
    /\ effects[1] = Effect("println", Display(StrV("/home")))
    /\ ReplShell.directory = <<"home", "a">>

C7_WhileCounts ==
    /\ loops.cond < MaxCount =>
         /\ loops.body <= loops.trues /\ loops.trues <= loops.body + 1
         /\ loops.trues + loops.falses <= loops.cond
         /\ loops.cond <= loops.trues + loops.falses + 1
    /\ (Drained /\ loops.cond < MaxCount) =>
         (loops.body = loops.trues /\ loops.cond = loops.trues + loops.falses)
    /\ (Drained /\ prog = WhileZeroProg) =>
         (loops = [cond |-> 1, body |-> 0, trues |-> 0, falses |-> 1] /\ effects = <<>>)
    /\ (Drained /\ prog = WhileTwiceProg) =>
         (loops = [cond |-> 3, body |-> 2, trues |-> 2, falses |-> 1] /\ effects = <<>>)

\* while 0 { println(9) } has run: one condition, one false test, no body
C7_Witness ==
    /\ Drained /\ prog = WhileZeroProg
    /\ loops.cond = 1 /\ loops.falses = 1 /\ loops.body = 0

\* C8 as claimed: once while 1 { exit() } has executed exit, the executor
\* leaves the loop and control returns to the REPL.
C8_Terminates == (pc = "exec" /\ prog = WhileExitProg /\ exitSeen) ~> (pc # "exec")

\* C9 as claimed: a program that executed exit anywhere leaves the REPL's
\* terminator flag set, and the REPL ends after the drain.
C9_ExitEndsRepl == (Drained /\ exitSeen) => (ReplShell.is_done /\ pc = "halted")

\* C10: after a = dict(); b = a; a.k = v (or a["k"] = v), a and b are one
\* tree and reading b.k (b["k"]) yields v.
C10_AliasSeesWrite ==
    \A v \in Lits :
        (Drained /\ prog \in {AliasDotProg(v), AliasIndexProg(v)}) =>
            /\ effects = <<Effect("result", Display(LitValue(v)))>>
            /\ ReplShell.registers["a"] = ReplShell.registers["b"]
            /\ heap[KidOf(heap[ReplShell.registers["b"]], "k")] = LitValue(v)

\* a.k = "s" has been read back through b
C10_Witness ==
    /\ Drained /\ prog = AliasDotProg(StrLit("s"))
    /\ effects = <<Effect("result", Display(StrV("s")))>>

\* C11: a simple assignment x = v executed when x already holds a value
\* equal to v leaves every register with the value it had and the stack as
\* it was before v was pushed; after 7; x = v; x = v register x holds v and
\* the stack holds the 7 alone, as after one assignment.
C11_AssignIdempotent ==
    [][/\ (/\ Now("store") /\ Top.stack # <<>>
            /\ Top.registers[Cur.node.s] # 0
            /\ heap[Top.registers[Cur.node.s]] = heap[peek(Machine)]) =>
               /\ frames'[Depth].stack = SubSeq(Top.stack, 1, Len(Top.stack) - 1)
               /\ \A n \in RegNames :
                    /\ (frames'[Depth].registers[n] = 0) = (Top.registers[n] = 0)
                    /\ Top.registers[n] # 0 => heap'[frames'[Depth].registers[n]] = heap[Top.registers[n]]
       /\ \A v \in Lits :
            (Drained' /\ prog' = AssignTwiceProg(v)) =>
               /\ frames'[1].registers["x"] # 0
               /\ heap'[frames'[1].registers["x"]] = LitValue(v)
               /\ effects' = <<Effect("result", Display(NumV(7)))>>]_vars

\* the second x = "s" of 7; x = "s"; x = "s" has stored
C11_Witness ==
    /\ pc = "exec" /\ last = "store" /\ prog = AssignTwiceProg(StrLit("s")) /\ kont = <<>>
    /\ heap[Top.registers["x"]] = StrV("s")
    /\ Len(Top.stack) = 1 /\ heap[Top.stack[1]] = NumV(7)

\* the running shell is about to execute the built-in b
AtBuiltin(b) == Now("exec") /\ Cur.node = Builtin(b)

\* the step leaves the running shell's directory, registers and flag alone
ShellKept ==
    /\ frames'[Depth].directory = Top.directory
    /\ frames'[Depth].registers = Top.registers
    /\ frames'[Depth].is_done = Top.is_done

\* C12: cd sets the directory to the resolved join of the directory and
\* the operand when that path exists and leaves it as it was when it does not;
\* either way execution goes on with the next expression, nothing else of
\* the shell or the file system changed.  From the home directory cd a
\* leads to /home/a, cd .. to /, cd nope nowhere.
C12_CdCanonical ==
    [][/\ AtBuiltin("ChangeDir") =>
            LET target == Resolve(PathPush(Top.directory, get_arg(Machine)), 1, <<>>)
            IN /\ frames'[Depth].directory = (IF Exists(fs, target) THEN target ELSE Top.directory)
               /\ frames'[Depth].registers = Top.registers
               /\ frames'[Depth].is_done = Top.is_done
               /\ fs' = fs /\ pc' = "exec" /\ kont' = Rest
       /\ (Drained' /\ nProgs' = 1) =>
            /\ prog' = CdProg("a") => frames'[1].directory = <<"home", "a">>
            /\ prog' = CdProg("..") => frames'[1].directory = <<>>
            /\ prog' = CdProg("nope") => frames'[1].directory = Home]_vars

\* cd nope has failed after a cd a: the directory is still /home/a
C12_Witness ==
    /\ Drained /\ nProgs = 2 /\ prog = CdProg("nope")
    /\ ReplShell.directory = <<"home", "a">>
    /\ effects[1] = Effect("cd", Display(StrV("/home/a")))

\* C13 as claimed: mv, rm, mkdir or mkf with an empty string for a path
\* operand calls nothing of the host file system and changes nothing but
\* the stack, which loses the operands.
C13_EmptyPathNoOp ==
    [][\A b \in {"Move", "Remove", "MakeDir", "MakeFile"} :
         (/\ AtBuiltin(b)
          /\ get_arg(Machine) = "" \/ (b = "Move" /\ get_arg(pop(Machine)) = "")) =>
            /\ effects' = effects
            /\ fs' = fs
            /\ ShellKept
            /\ frames'[Depth].stack =
                 (IF b = "Move" THEN pop(pop(Machine)).stack ELSE pop(Machine).stack)]_vars

\* C18 as claimed: ls on its own reads the current directory and adds one
\* list to the values the program pushed before it; ls d reads the join of
\* the current directory and d and pushes one list.
C18_LsReadsCurrent ==
    /\ \A pre \in LsPres :
         (Drained /\ prog = LsProg(pre)) =>
            /\ Len(effects) = 2 + Len(pre)
            /\ effects[1] = HostCall("read_dir", to_string(ReplShell.directory), "")
            /\ effects[2].ev = "result" /\ effects[2].t = "list"
            /\ \A i \in 1..Len(pre) :
                 effects[2 + i] = Effect("result", Display(LitValue(pre[Len(pre) + 1 - i])))
    /\ \A d \in {"a", "nope"} :
         (Drained /\ prog = LsArgProg(d)) =>
            /\ Len(effects) = 2
            /\ effects[1] = HostCall("read_dir", to_string(PathPush(ReplShell.directory, d)), "")
            /\ effects[2].ev = "result" /\ effects[2].t = "list"

\* C19 as claimed: wherever pwd is executed it pushes one string, the
\* directory of the REPL's shell (the one the prompt shows, set by the last
\* cd that succeeded), also in the body of a user function.
C19_PwdIsCurrent ==
    [][AtBuiltin("WorkingDir") =>
         /\ Len(frames'[Depth].stack) = Len(Top.stack) + 1
         /\ SubSeq(frames'[Depth].stack, 1, Len(Top.stack)) = Top.stack
         /\ heap'[frames'[Depth].stack[Len(Top.stack) + 1]] = StrV(to_string(ReplShell.directory))]_vars

\* the executor has a rule for the item it is at
Handled ==
    \/ Cur.op \in {"dotindex", "index", "store", "assign", "call", "enter", "return", "host",
                    "evalend", "whiletest", "iftest"}
    \/ Cur.op = "exec" /\ Cur.node.k \in {"Suite", "Number", "String", "Identifier", "DotName",
                                            "IndexName", "Assignment", "FunctionDef", "Function",
                                            "FnCall", "WhileLoop", "IfThenElse"}
    \/ Cur.op = "exec" /\ Cur.node.k = "Builtin" /\ \E n \in 1..Len(Keywords) : Cur.node.s = Keywords[n].b

LineRead == pc \in {"prompt", "more"} /\ last' \in {"accept", "more", "error"}

\* C14: a buffer reported as a parse error leaves the shells, the heap and
\* the file system as they were and nothing to execute, and so does every
\* line read before it; the REPL is at the prompt again, and the buffer after
\* an error starts with the line read next.
C14_ParseErrorDiscards ==
    [][/\ (LineRead /\ last' = "error") =>
            /\ ~ program(command').ok
            /\ pc' = "prompt" /\ kont' = <<>>
            /\ frames' = frames /\ heap' = heap /\ fs' = fs
       /\ (LineRead /\ last' = "more") =>
            /\ kont' = <<>>
            /\ frames' = frames /\ heap' = heap /\ fs' = fs
       /\ (LineRead /\ last = "error") => command' = user_input']_vars

\* x = 2 has run, then the buffer "x =" ended by an empty line is an error
C14_Witness ==
    /\ pc = "prompt" /\ last = "error" /\ command = "x =" /\ user_input = ""
    /\ effects = <<ParseError>>
    /\ ReplShell.registers["x"] # 0 /\ heap[ReplShell.registers["x"]] = NumV(2)

\* C15: a line read joins the buffer (a new one at the prompt); if the
\* buffer parses the program it parses as is executed, if it does not and
\* the line is not blank the REPL asks for more and nothing is executed, if
\* it does not and the line is blank an error is printed and the REPL is at
\* the prompt.  Execution starts from a line read only with a buffer that
\* parses, and once started ends in the drain without starting again.
C15_Accumulation ==
    [][/\ LineRead =>
            /\ command' = (IF pc = "more" THEN command \o user_input' ELSE user_input')
            /\ program(command').ok =>
                 /\ pc' = "exec" /\ last' = "accept"
                 /\ kont' = <<Exec(program(command').v)>> /\ prog' = program(command').v
            /\ (~ program(command').ok /\ ~ Blank(user_input')) =>
                 /\ pc' = "more" /\ last' = "more"
                 /\ kont' = <<>> /\ effects' = <<>>
            /\ (~ program(command').ok /\ Blank(user_input')) =>
                 /\ pc' = "prompt" /\ last' = "error"
                 /\ kont' = <<>> /\ effects' = <<ParseError>>
       /\ (pc # "exec" /\ pc' = "exec" /\ last' # "submit") =>
            (LineRead /\ program(command').ok)
       /\ pc = "exec" =>
            /\ command' = command /\ prog' = prog
            /\ pc' \in {"exec", "prompt", "halted"}
            /\ pc' # "exec" => (kont = <<>> /\ last' = "drain")]_vars

\* "x =" did not parse, " 2" made the buffer x = 2, which is executing
C15_Witness ==
    /\ pc = "exec" /\ last = "accept" /\ command = "x = 2" /\ user_input = " 2"
    /\ kont = <<Exec(AssignProg(NumLit(2)))>>

\* C16 as claimed: no shell ever has a register under a keyword of a
\* built-in.
C16_BuiltinsReserved ==
    \A i \in 1..Len(frames) :
        \A n \in 1..Len(Keywords) :
            Keywords[n].w \in RegNames => frames[i].registers[Keywords[n].w] = 0

RECURSIVE ValueNodes(_), TargetNodes(_)
\* the nodes of an AST that stand where a value is read
ValueNodes(nd) ==
    LET Each(sq) == UNION {ValueNodes(sq[i]) : i \in 1..Len(sq)}
    IN CASE nd.k \in {"Number", "String", "Identifier", "Builtin"} -> {nd}
         [] nd.k \in {"Suite", "Function"} -> Each(nd.c)
         [] nd.k \in {"Assignment", "FunctionDef"} -> TargetNodes(nd.a[1]) \cup ValueNodes(nd.b[1])
         [] nd.k \in {"FnCall", "DotName", "IndexName"} -> {nd} \cup Each(nd.a) \cup Each(nd.b)
         [] nd.k \in {"WhileLoop", "IfThenElse"} -> Each(nd.a) \cup Each(nd.b) \cup Each(nd.c)
         [] OTHER -> {}

\* the values read inside the name an assignment or a definition writes to
TargetNodes(nd) ==
    IF nd.k = "Identifier" THEN {}
    ELSE (IF nd.a[1].k = "Identifier" THEN {} ELSE ValueNodes(nd.a[1]))
         \cup UNION {IF nd.k = "IndexName" THEN ValueNodes(nd.b[i]) ELSE {} : i \in 1..Len(nd.b)}

\* C17: ls where a value is read (a statement, the right-hand side of an
\* assignment, an argument, a condition, a group, an index) parses as the
\* built-in List, and no program the parser accepts reads the identifier ls
\* as a value.
C17_LsIsBuiltin ==
    pc = "parsed" =>
        /\ last = "accept" => Identifier("ls") \notin ValueNodes(prog)
        /\ \A t \in ValueTemplates :
             command = Template(t, "ls") => (last = "accept" /\ prog = Expected(t, Builtin("List")))

\* x = ls has been parsed
C17_Witness ==
    /\ pc = "parsed" /\ command = "x = ls" /\ last = "accept"
    /\ prog = Suite(<<Assignment(Identifier("x"), Builtin("List"))>>)

\* the call() items waiting in a continuation
Calls(k) == {i \in 1..Len(k) : k[i].op = "call"}

\* the operands a built-in takes from the stack, and the values it pushes
Operands(b) ==
    CASE b \in {"List", "ChangeDir", "Remove", "MakeDir", "MakeFile"} -> 1
      [] b = "Move" -> 2
      [] OTHER -> 0

Pushes(b) == IF b \in {"List", "WorkingDir"} THEN 1 ELSE 0

\* C21: executing an FnCall schedules the arguments last to first, then the
\* callee, and one call() right after the callee exactly when the callee is
\* not a built-in; every call() executed comes from such an FnCall and pops
\* one value; a built-in runs once, in place, takes at most its own operands
\* from the stack and starts no function.
C21_CallUnlessBuiltin ==
    [][/\ At("FnCall") =>
            LET node == Cur.node
                n == Len(node.b)
            IN /\ \A i \in 1..n : kont'[i] = Exec(node.b[n + 1 - i])
               /\ kont'[n + 1] = Exec(node.a[1])
               /\ IF node.a[1].k = "Builtin"
                  THEN kont' = SubSeq(kont', 1, n + 1) \o Rest
                  ELSE /\ kont'[n + 2].op = "call" /\ kont'[n + 2].site = node
                       /\ kont' = SubSeq(kont', 1, n + 2) \o Rest
               /\ frames' = frames
       /\ (Running /\ Cur.op = "call") =>
            /\ Cur.site.k = "FnCall" /\ Cur.site.a[1].k # "Builtin"
            /\ Cardinality(Calls(kont')) = Cardinality(Calls(kont)) - 1
            /\ Depth' = Depth
            /\ Top'.stack = SubSeq(Top.stack, 1, Len(Top.stack) - 1)
       /\ At("Builtin") =>
            /\ kont' = Rest
            /\ Depth' = Depth
            /\ \E keep \in {IF Len(Top.stack) > Operands(Cur.node.s)
                              THEN Len(Top.stack) - Operands(Cur.node.s) ELSE 0} :
                 /\ Len(Top'.stack) = keep + Pushes(Cur.node.s)
                 /\ SubSeq(Top'.stack, 1, keep) = SubSeq(Top.stack, 1, keep)]_vars

\* cd("a") has run as a built-in callee: its argument is popped, no call()
\* waits, and pwd is next
C21_Witness ==
    /\ pc = "exec" /\ last = "cd" /\ prog = CdProg("a")
    /\ kont = <<Exec(Builtin("WorkingDir"))>>
    /\ Top.stack = <<>> /\ Top.directory = <<"home", "a">>

\* the values a stack of a shell holds, bottom first
StackValues(shell, h) == [i \in 1..Len(shell.stack) |-> Display(h[shell.stack[i]])]

\* C22: the callee starts from the caller's stack less the values its
\* parameters take, the caller's shell waiting unchanged; on return the
\* caller's stack is the callee's final stack and nothing else of the
\* caller changes.  So a value below the arguments is still there after the
\* call with what the body left on top of it, unless the body popped it.
C22_StackPublished ==
    [][/\ (Running /\ Cur.op = "enter") =>
            /\ Depth' = Depth + 1
            /\ frames'[Depth] = Top
            /\ \E keep \in {IF Len(Top.stack) > Len(Cur.node.b)
                              THEN Len(Top.stack) - Len(Cur.node.b) ELSE 0} :
                 Top'.stack = SubSeq(Top.stack, 1, keep)
       /\ (Running /\ Cur.op = "return") =>
            /\ Depth' = Depth - 1
            /\ Top'.stack = Top.stack
            /\ StackValues(Top', heap') = StackValues(Top, heap)
            /\ Top' = [Caller EXCEPT !.stack = Top.stack]
            /\ \A u \in Lits, v \in Lits :
                 prog = CallProg(u, v) => StackValues(Top', heap') = <<Display(NumV(7))>>
            /\ prog = StackProg(<<StrLit("s")>>) =>
                 StackValues(Top', heap') = <<Display(NumV(7)), Display(StrV("s"))>>
            /\ prog = StackProg(<<FnCall(Identifier("println"), <<>>)>>) =>
                 (Top'.stack = <<>> /\ Caller.stack # <<>>)]_vars

\* f(1) has returned: the 7 pushed before the call, the "s" of the body on
\* top, the argument gone
C22_Witness ==
    /\ pc = "exec" /\ last = "return" /\ Depth = 1
    /\ prog = StackProg(<<StrLit("s")>>)
    /\ StackValues(Top, heap) = <<Display(NumV(7)), Display(StrV("s"))>>

\* C23 as claimed: a word that is an identifier and not a keyword, also one
\* whose first letters are a keyword, parses where a value is read as the
\* identifier of the whole word.
C23_WholeWord ==
    pc = "parsed" =>
        \A t \in ValueTemplates, w \in LongWords :
            command = Template(t, w) => (last = "accept" /\ prog = Expected(t, Identifier(w)))

\* the items that end the shells above the first, the innermost first
Ends == SelectSeq(kont, LAMBDA it : it.op \in {"return", "evalend"})

\* the shell at i was made by eval
EvalShell(i) == i > 1 /\ i <= Depth /\ Depth - i + 1 <= Len(Ends) /\ Ends[Depth - i + 1].op = "evalend"

\* the shell and every cell its stack and registers reach
Kept(shell) ==
    /\ \E i \in 1..Len(frames') : frames'[i] = shell
    /\ \A a \in Reach(heap, Roots(<<shell>>)) : heap'[a] = heap[a]

\* C24: eval pops the command and nothing else; if the text parses the
\* program runs in a new shell (empty stack, home directory, not done, its
\* own cells for the names machine() registers, no other name bound), whose
\* stack is printed and dropped with it at the end; until then no step
\* changes the calling shell or a cell it reaches, so after eval the caller
\* has its registers, directory and flag as before and its stack less the
\* command.  If the text does not parse, or nothing is on the stack, nothing
\* is started.
C24_EvalIsolated ==
    [][/\ (Running /\ Cur.op = "host" /\ Cur.node.s = "eval") =>
            /\ frames'[Depth] = [Top EXCEPT !.stack = SubSeq(Top.stack, 1, Len(Top.stack) - 1)]
            /\ \A i \in 1..(Depth - 1) : frames'[i] = frames[i]
            /\ \A a \in Reach(heap, Roots(frames')) \cap Reach(heap, Roots(frames)) : heap'[a] = heap[a]
            /\ IF Top.stack # <<>> /\ program(ValueStr(heap[Top.stack[Len(Top.stack)]])).ok
               THEN /\ Depth' = Depth + 1
                    /\ Top'.stack = <<>> /\ Top'.directory = Home /\ ~ Top'.is_done
                    /\ \A n \in RegNames :
                         IF n \in UserNames THEN Top'.registers[n] = 0
                         ELSE /\ Top'.registers[n] \notin Reach(heap, Roots(frames)) \cup {0}
                              /\ heap'[Top'.registers[n]] = machine.cells[machine.registers[n]]
                    /\ kont'[2].op = "evalend" /\ Tail(Tail(kont')) = Rest
                    /\ effects' = effects
               ELSE /\ Depth' = Depth /\ kont' = Rest
                    /\ effects' = (IF Top.stack = <<>> THEN effects ELSE Log(effects, ParseError))
       /\ (Running /\ Cur.op = "evalend") =>
            /\ frames' = SubSeq(frames, 1, Depth - 1)
            /\ \A a \in Reach(heap, Roots(frames')) : heap'[a] = heap[a]
            /\ effects' = print_stack(heap, Top.stack, effects).effects
       /\ \A i \in 1..(Depth - 1) : EvalShell(i + 1) => Kept(frames[i])
       /\ (Drained' /\ prog = EvalProg("x = 2; 5")) =>
            /\ effects' = <<Effect("result", Display(NumV(5))), Effect("result", Display(NumV(1))),
                            Effect("result", Display(NumV(7)))>>
            /\ heap'[ReplShell'.registers["x"]] = NumV(1)
       /\ (Drained' /\ prog = EvalProg("exit")) => (pc' = "prompt" /\ ~ ReplShell'.is_done)
       /\ (Drained' /\ prog = EvalProg("cd \"a\"")) => ReplShell'.directory = ReplShell.directory
       /\ (Drained' /\ prog = EvalProg("x =")) =>
            effects' = <<ParseError, Effect("result", Display(NumV(1))), Effect("result", Display(NumV(7)))>>]_vars

\* eval("x = 2; 5") has returned: 5 is printed, the caller has its 7 and
\* its x = 1
C24_Witness ==
    /\ pc = "exec" /\ last = "evalend" /\ Depth = 1
    /\ prog = EvalProg("x = 2; 5")
    /\ StackValues(Top, heap) = <<Display(NumV(7))>>
    /\ heap[Top.registers["x"]] = NumV(1)
    /\ Top.directory = Home /\ ~ Top.is_done
    /\ effects = <<Effect("result", Display(NumV(5)))>>

====
